---- MODULE Spec2Model ----
(***************************************************************************)
(* Translation of src/zsh.h, the zle/completion compatibility header.      *)
(* The header has no function bodies; what it determines is what a C       *)
(* translator makes of it: which macros, typedefs, objects and functions   *)
(* it introduces, with which linkage and initial values, and how its       *)
(* structs are laid out.  The state machine below processes the header     *)
(* one declaration (and, inside a struct, one member) at a time.           *)
(* The build parameters the header does not fix (data model, signedness    *)
(* of plain char, ZSH_HEAP_DEBUG, the size of Heapid) are chosen in Init.  *)
(***************************************************************************)
EXTENDS Integers, Sequences, FiniteSets, TLC

\* Heapid is not declared by the header; its size is 2^k, k \in 0..MaxHeapidLog.
MaxHeapidLog == 3

Range(s) == {s[i] : i \in 1..Len(s)}

T(b, p) == [base |-> b, ptr |-> p]
NoType == T("", 0)
NoInit == [has |-> FALSE, cast |-> "", lit |-> 0]

F(n, b, p) == [name |-> n, type |-> T(b, p), cond |-> ""]
FIf(c, n, b, p) == [name |-> n, type |-> T(b, p), cond |-> c]

\* struct cmatch, members in declaration order.
CmatchFields ==
  << F("str", "char", 1), F("orig", "char", 1), F("ipre", "char", 1),
     F("ripre", "char", 1), F("isuf", "char", 1), F("ppre", "char", 1),
     F("psuf", "char", 1), F("prpre", "char", 1), F("pre", "char", 1),
     F("suf", "char", 1), F("disp", "char", 1), F("autoq", "char", 1),
     F("flags", "int", 0), F("brpl", "int", 1), F("brsl", "int", 1),
     F("rems", "char", 1), F("remf", "char", 1), F("qipl", "int", 0),
     F("qisl", "int", 0), F("rnum", "int", 0), F("gnum", "int", 0),
     F("mode", "mode_t", 0), F("modec", "char", 0),
     F("fmode", "mode_t", 0), F("fmodec", "char", 0) >>

\* A plausible slip: the conditional member placed before perm instead of after.
CmgroupFields_heapBeforePerm ==
  << F("name", "char", 1), F("prev", "Cmgroup", 0), F("next", "Cmgroup", 0),
     F("flags", "int", 0), F("mcount", "int", 0), F("matches", "Cmatch", 1),
     F("lcount", "int", 0), F("llcount", "int", 0), F("ylist", "char", 2),
     F("ecount", "int", 0), F("expls", "Cexpl", 1), F("ccount", "int", 0),
     F("lexpls", "LinkList", 0), F("lmatches", "LinkList", 0),
     F("lfmatches", "LinkList", 0), F("lallccs", "LinkList", 0),
     F("num", "int", 0), F("nbrbeg", "int", 0), F("nbrend", "int", 0),
     F("new", "int", 0), F("dcount", "int", 0), F("cols", "int", 0),
     F("lins", "int", 0), F("width", "int", 0), F("widths", "int", 1),
     F("totl", "int", 0), F("shortest", "int", 0),
     FIf("ZSH_HEAP_DEBUG", "heap_id", "Heapid", 0),
     F("perm", "Cmgroup", 0) >>

\* struct cmgroup, members in declaration order; heap_id is inside #ifdef.
CmgroupFields ==
  << F("name", "char", 1), F("prev", "Cmgroup", 0), F("next", "Cmgroup", 0),
     F("flags", "int", 0), F("mcount", "int", 0), F("matches", "Cmatch", 1),
     F("lcount", "int", 0), F("llcount", "int", 0), F("ylist", "char", 2),
     F("ecount", "int", 0), F("expls", "Cexpl", 1), F("ccount", "int", 0),
     F("lexpls", "LinkList", 0), F("lmatches", "LinkList", 0),
     F("lfmatches", "LinkList", 0), F("lallccs", "LinkList", 0),
     F("num", "int", 0), F("nbrbeg", "int", 0), F("nbrend", "int", 0),
     F("new", "int", 0), F("dcount", "int", 0), F("cols", "int", 0),
     F("lins", "int", 0), F("width", "int", 0), F("widths", "int", 1),
     F("totl", "int", 0), F("shortest", "int", 0),
     F("perm", "Cmgroup", 0),
     FIf("ZSH_HEAP_DEBUG", "heap_id", "Heapid", 0) >>

\* struct menuinfo, members in declaration order.
MenuinfoFields ==
  << F("group", "Cmgroup", 0), F("cur", "Cmatch", 1), F("pos", "int", 0),
     F("len", "int", 0), F("end", "int", 0), F("we", "int", 0),
     F("insc", "int", 0), F("asked", "int", 0), F("prebr", "char", 1),
     F("postbr", "char", 1) >>

Decl(k, n, ns, ty, st, mx, in, fs, toks) ==
  [kind |-> k, name |-> n, names |-> ns, type |-> ty, storage |-> st,
   mx |-> mx, init |-> in, fields |-> fs, body |-> toks]

DDefine(n, toks)   == Decl("define", n, <<>>, NoType, <<>>, FALSE, NoInit, <<>>, toks)
DInclude(n)        == Decl("include", n, <<>>, NoType, <<>>, FALSE, NoInit, <<>>, <<>>)
DTypedef(n, ty)    == Decl("typedef", n, <<>>, ty, <<>>, FALSE, NoInit, <<>>, <<>>)
DVar(mx, st, ty, ns, in) == Decl("var", "", ns, ty, st, mx, in, <<>>, <<>>)
DStruct(n, fs)     == Decl("struct", n, <<>>, NoType, <<>>, FALSE, NoInit, fs, <<>>)
DFunc(mx, n)       == Decl("func", n, <<>>, NoType, <<>>, mx, NoInit, <<>>, <<>>)

CastChar(v) == [has |-> TRUE, cast |-> "char", lit |-> v]

\* A plausible slip: compfunc declared without its initialiser.
NullInit_absent == [has |-> FALSE, cast |-> "", lit |-> 0]

\* = NULL
NullInit == [has |-> TRUE, cast |-> "", lit |-> 0]

\* A plausible slip: the macro without its trailing semicolon.
ModExportBody_noSemicolon == << "static" >>

\* #define mod_export static;
ModExportBody == << "static", ";" >>

\* The header, one entry per directive or declaration, in source order.
Header ==
  << DDefine("mod_export", ModExportBody),
     DInclude("stdint.h+unistd.h"),
     DTypedef("LinkList", T("size_t", 0)),
     DTypedef("mode_t", T("uint32_t", 0)),
     DVar(TRUE, <<"static">>, T("unsigned char", 0), <<"Meta">>, CastChar(131)),
     DVar(TRUE, <<"static">>, T("unsigned char", 0), <<"Inpar">>, CastChar(136)),
     DVar(TRUE, <<"static">>, T("unsigned char", 0), <<"Outpar">>, CastChar(138)),
     DTypedef("Cmatcher", T("struct cmatcher", 1)),
     DTypedef("Cmlist", T("struct cmlist", 1)),
     DTypedef("Cpattern", T("struct cpattern", 1)),
     DTypedef("Menuinfo", T("struct menuinfo", 1)),
     DTypedef("Cexpl", T("struct cexpl", 1)),
     DTypedef("Cmgroup", T("struct cmgroup", 1)),
     DTypedef("Cmatch", T("struct cmatch", 1)),
     DStruct("cmatch", CmatchFields),
     DTypedef("Cmgroup", T("struct cmgroup", 1)),
     DStruct("cmgroup", CmgroupFields),
     DVar(TRUE, <<>>, T("LinkList", 0), <<"matches">>, NoInit),
     DVar(TRUE, <<>>, T("Cmgroup", 0),
          <<"lastmatches", "pmatches", "amatches", "lmatches", "lastlmatches">>, NoInit),
     DVar(TRUE, <<>>, T("char", 2), <<"cfargs">>, NoInit),
     DVar(TRUE, <<>>, T("int", 0), <<"cfret">>, NoInit),
     DVar(TRUE, <<>>, T("char", 1), <<"compfunc">>, NullInit),
     DVar(TRUE, <<>>, T("int", 0), <<"nbrbeg", "nbrend">>, NoInit),
     DFunc(TRUE, "menucomplete"),
     DFunc(TRUE, "makezleparams"),
     DFunc(TRUE, "permmatches"),
     DFunc(TRUE, "do_single"),
     DFunc(TRUE, "metafy_line"),
     DFunc(TRUE, "unmetafy_line"),
     DStruct("menuinfo", MenuinfoFields),
     DVar(TRUE, <<>>, T("struct menuinfo", 0), <<"minfo">>, NoInit),
     DFunc(FALSE, "expandhistory"),
     DFunc(FALSE, "set_histno"),
     DFunc(FALSE, "selectkeymap"),
     DFunc(FALSE, "initundo"),
     DFunc(FALSE, "acceptline") >>

VARIABLES abi, charSigned, heapDebug, heapidLog,
          pc, fld, off, macros, typedefs, globals, funcs, structs

vars == << abi, charSigned, heapDebug, heapidLog,
           pc, fld, off, macros, typedefs, globals, funcs, structs >>

build == << abi, charSigned, heapDebug, heapidLog >>

Pow2(k) == IF k = 0 THEN 1 ELSE IF k = 1 THEN 2 ELSE IF k = 2 THEN 4
           ELSE IF k = 3 THEN 8 ELSE IF k = 4 THEN 16 ELSE 32

PtrSize(a) == IF a = "LP64" THEN 8 ELSE 4

\* Macros defined on the command line of the build.
Defined == IF heapDebug THEN {"ZSH_HEAP_DEBUG"} ELSE {}

\* #ifdef: a member is kept when it is unconditional or its macro is defined.
Preprocess(fs, defs) == SelectSeq(fs, LAMBDA f : f.cond = "" \/ f.cond \in defs)

RECURSIVE SizeOf(_, _)
SizeOf(ty, tds) ==
  IF ty.ptr > 0 THEN PtrSize(abi)
  ELSE IF ty.base \in DOMAIN tds THEN SizeOf(tds[ty.base], tds)
  ELSE IF ty.base \in {"char", "unsigned char"} THEN 1
  ELSE IF ty.base \in {"int", "unsigned int"} THEN 4
  ELSE IF ty.base = "unsigned long" THEN PtrSize(abi)
  ELSE IF ty.base = "Heapid" THEN Pow2(heapidLog)
  ELSE 0

\* Every scalar the header uses is aligned to its size.
AlignOf(ty, tds) == SizeOf(ty, tds)

AlignUp(o, a) == ((o + a - 1) \div a) * a

\* Offsets of the members fs laid out in order from offset start.
RECURSIVE OffsetsFrom(_, _, _)
OffsetsFrom(fs, start, tds) ==
  IF fs = <<>> THEN <<>>
  ELSE LET o == AlignUp(start, AlignOf(Head(fs).type, tds))
       IN  <<o>> \o OffsetsFrom(Tail(fs), o + SizeOf(Head(fs).type, tds), tds)

\* int -> plain char (wraps on every build the header is used with).
ToChar(v) ==
  LET m == v % 256
  IN  IF charSigned /\ m >= 128 THEN m - 256 ELSE m

\* A plausible slip: the magnitude instead of the value modulo 256.
ToUChar_magnitude(x) == IF x < 0 THEN 0 - x ELSE x

\* char -> unsigned char: the value modulo 256.
ToUChar(x) == ((x % 256) + 256) % 256

EvalInit(in, ty) ==
  LET v == IF in.cast = "char" THEN ToChar(in.lit) ELSE in.lit
  IN  IF ty = T("unsigned char", 0) THEN ToUChar(v) ELSE v

\* Replace mod_export by its body, then append the declaration's own specifiers.
SpecifierTokens(d) ==
  (IF d.mx /\ "mod_export" \in DOMAIN macros THEN macros["mod_export"] ELSE <<>>)
    \o d.storage

\* The tokens after the last ";" belong to the declaration proper.
RECURSIVE AfterLastSemi(_)
AfterLastSemi(toks) ==
  IF \E i \in 1..Len(toks) : toks[i] = ";"
  THEN AfterLastSemi(SubSeq(toks, (CHOOSE i \in 1..Len(toks) : toks[i] = ";") + 1, Len(toks)))
  ELSE toks

Linkage(d) ==
  IF "static" \in Range(AfterLastSemi(SpecifierTokens(d))) THEN "internal" ELSE "external"

Done == pc = Len(Header) + 1

Cur == Header[pc]

Init ==
  /\ abi \in {"ILP32", "LP64"}
  /\ charSigned \in BOOLEAN
  /\ heapDebug \in BOOLEAN
  /\ heapidLog \in 0..MaxHeapidLog
  /\ pc = 1
  /\ fld = 0
  /\ off = 0
  /\ macros = << >>
  /\ typedefs = << >>
  /\ globals = << >>
  /\ funcs = << >>
  /\ structs = << >>

Define ==
  /\ ~Done /\ Cur.kind = "define"
  /\ macros' = (Cur.name :> Cur.body) @@ macros
  /\ pc' = pc + 1
  /\ UNCHANGED << build, fld, off, typedefs, globals, funcs, structs >>

Include ==
  /\ ~Done /\ Cur.kind = "include"
  /\ typedefs' = ("size_t" :> T(IF abi = "LP64" THEN "unsigned long" ELSE "unsigned int", 0))
                 @@ ("uint32_t" :> T("unsigned int", 0)) @@ typedefs
  /\ pc' = pc + 1
  /\ UNCHANGED << build, fld, off, macros, globals, funcs, structs >>

Typedef ==
  /\ ~Done /\ Cur.kind = "typedef"
  /\ typedefs' = (Cur.name :> Cur.type) @@ typedefs
  /\ pc' = pc + 1
  /\ UNCHANGED << build, fld, off, macros, globals, funcs, structs >>

DeclareVar ==
  /\ ~Done /\ Cur.kind = "var"
  /\ LET obj == [linkage |-> Linkage(Cur),
                 const   |-> "const" \in Range(Cur.storage),
                 hasInit |-> Cur.init.has,
                 value   |-> IF Cur.init.has THEN EvalInit(Cur.init, Cur.type) ELSE 0,
                 type    |-> Cur.type]
     IN  globals' = [n \in Range(Cur.names) |-> obj] @@ globals
  /\ pc' = pc + 1
  /\ UNCHANGED << build, fld, off, macros, typedefs, funcs, structs >>

DeclareFunc ==
  /\ ~Done /\ Cur.kind = "func"
  /\ funcs' = (Cur.name :> [linkage |-> Linkage(Cur), hasBody |-> Cur.body # <<>>]) @@ funcs
  /\ pc' = pc + 1
  /\ UNCHANGED << build, fld, off, macros, typedefs, globals, structs >>

BeginStruct ==
  /\ ~Done /\ Cur.kind = "struct" /\ fld = 0
  /\ structs' = (Cur.name :> [order |-> <<>>, offset |-> <<>>, size |-> 0,
                              align |-> 1, complete |-> FALSE]) @@ structs
  /\ fld' = 1
  /\ off' = 0
  /\ UNCHANGED << build, pc, macros, typedefs, globals, funcs >>

LayoutField ==
  /\ ~Done /\ Cur.kind = "struct" /\ fld >= 1
  /\ fld <= Len(Preprocess(Cur.fields, Defined))
  /\ LET f == Preprocess(Cur.fields, Defined)[fld]
         a == AlignOf(f.type, typedefs)
         o == AlignUp(off, a)
         s == structs[Cur.name]
     IN  /\ structs' = [structs EXCEPT ![Cur.name] =
                          [s EXCEPT !.order = Append(s.order, f.name),
                                    !.offset = Append(s.offset, o),
                                    !.align = IF a > s.align THEN a ELSE s.align]]
         /\ off' = o + SizeOf(f.type, typedefs)
  /\ fld' = fld + 1
  /\ UNCHANGED << build, pc, macros, typedefs, globals, funcs >>

EndStruct ==
  /\ ~Done /\ Cur.kind = "struct" /\ fld >= 1
  /\ fld > Len(Preprocess(Cur.fields, Defined))
  /\ LET s == structs[Cur.name]
     IN  structs' = [structs EXCEPT ![Cur.name] =
                       [s EXCEPT !.size = AlignUp(off, s.align), !.complete = TRUE]]
  /\ fld' = 0
  /\ off' = 0
  /\ pc' = pc + 1
  /\ UNCHANGED << build, macros, typedefs, globals, funcs >>

Next ==
  \/ Define
  \/ Include
  \/ Typedef
  \/ DeclareVar
  \/ DeclareFunc
  \/ BeginStruct
  \/ LayoutField
  \/ EndStruct

Spec == Init /\ [][Next]_vars

----------------------------------------------------------------------------
FunctionNames ==
  { "menucomplete", "makezleparams", "permmatches", "do_single", "metafy_line",
    "unmetafy_line", "expandhistory", "set_histno", "selectkeymap", "initundo",
    "acceptline" }

InitialisedNames == { "Meta", "Inpar", "Outpar", "compfunc" }

VariableNames ==
  { "Meta", "Inpar", "Outpar", "matches", "lastmatches", "pmatches", "amatches",
    "lmatches", "lastlmatches", "cfargs", "cfret", "compfunc", "nbrbeg", "nbrend",
    "minfo" }

FunctionsBodilessExternal ==
  /\ \A f \in DOMAIN funcs : ~funcs[f].hasBody /\ funcs[f].linkage = "external"
  /\ DOMAIN funcs \subseteq FunctionNames
  /\ Done => DOMAIN funcs = FunctionNames

DeclaredObjectsKept ==
  \A v \in DOMAIN globals : v \in DOMAIN globals' /\ globals'[v] = globals[v]

\* C1: every function the header names is declared without a body and with
\* external linkage, and no step of the header changes an object that has
\* already been declared.
C1_NoOperations == [](FunctionsBodilessExternal) /\ [][DeclaredObjectsKept]_vars

C1_Witness ==
  /\ Done
  /\ DOMAIN funcs = FunctionNames
  /\ "minfo" \in DOMAIN globals

\* C2 as stated: the header introduces no mutable file-scope variable and no
\* variable with an initial value.
C2_NoMutableNoInitialised ==
  \A v \in DOMAIN globals : globals[v].const /\ ~globals[v].hasInit

\* C2 amended: every file-scope variable of the header is non-const, exactly
\* Meta, Inpar, Outpar and compfunc have an initialiser (compfunc's is NULL),
\* and the header declares exactly the fifteen variables listed.
C2_MutableGlobals ==
  /\ \A v \in DOMAIN globals :
        /\ ~globals[v].const
        /\ globals[v].hasInit <=> v \in InitialisedNames
  /\ "compfunc" \in DOMAIN globals => globals["compfunc"].value = 0
  /\ DOMAIN globals \subseteq VariableNames
  /\ Done => DOMAIN globals = VariableNames

C2_Witness ==
  /\ Done
  /\ DOMAIN globals = VariableNames
  /\ globals["compfunc"].hasInit
  /\ ~globals["minfo"].hasInit

\* C6: Meta, Inpar and Outpar hold 131, 136 and 138 whether plain char is
\* signed or unsigned; the values are pairwise distinct and above 127.
C6_MetaChars ==
  /\ "Meta" \in DOMAIN globals => globals["Meta"].value = 131
  /\ "Inpar" \in DOMAIN globals => globals["Inpar"].value = 136
  /\ "Outpar" \in DOMAIN globals => globals["Outpar"].value = 138
  /\ \A v \in DOMAIN globals \cap {"Meta", "Inpar", "Outpar"} :
        /\ globals[v].value > 127
        /\ globals[v].value < 256
        /\ \A w \in DOMAIN globals \cap {"Meta", "Inpar", "Outpar"} :
              v # w => globals[v].value # globals[w].value

C6_Witness ==
  /\ charSigned
  /\ {"Meta", "Inpar", "Outpar"} \subseteq DOMAIN globals
  /\ ToChar(131) < 0

NonDebugCmgroup == Preprocess(CmgroupFields, {})

\* C7: with or without ZSH_HEAP_DEBUG the members of struct cmgroup from name
\* through perm come in the same order at the same offsets as in the layout
\* without it, and with it the only further member is heap_id, after perm.
C7_HeapDebugAppendsOnly ==
  "cmgroup" \in DOMAIN structs =>
    LET s == structs["cmgroup"]
        ref == NonDebugCmgroup
        refOff == OffsetsFrom(ref, 0, typedefs)
        n == IF Len(s.order) < Len(ref) THEN Len(s.order) ELSE Len(ref)
    IN  /\ ref[Len(ref)].name = "perm"
        /\ \A i \in 1..n : s.order[i] = ref[i].name /\ s.offset[i] = refOff[i]
        /\ Len(s.order) > Len(ref) =>
              /\ heapDebug
              /\ Len(s.order) = Len(ref) + 1
              /\ s.order[Len(s.order)] = "heap_id"
              /\ s.offset[Len(s.order)] >= refOff[Len(ref)] + PtrSize(abi)
        /\ s.complete => Len(s.order) = Len(ref) + (IF heapDebug THEN 1 ELSE 0)

C7_Witness ==
  /\ heapDebug
  /\ "cmgroup" \in DOMAIN structs
  /\ structs["cmgroup"].complete
  /\ structs["cmgroup"].order[Len(structs["cmgroup"].order)] = "heap_id"
  /\ structs["cmgroup"].order[Len(structs["cmgroup"].order) - 1] = "perm"

====
